---------------------------- MODULE Spec2Model ----------------------------
(***************************************************************************)
(* The valuation engine of the repository: DataProcessor (the property     *)
(* repository and the comparable selector, src/src/data_processing/        *)
(* data_processor.py) and ValuationCalculator with ValuationResult         *)
(* (src/src/valuation_calculator.py).                                      *)
(*                                                                         *)
(* Python values are modelled as follows.                                  *)
(*   - a float or an int is an exact rational [n |-> numerator,            *)
(*     d |-> denominator], normalised (d > 0, gcd 1); arithmetic is exact, *)
(*     so binary floating-point rounding error is not modelled;            *)
(*   - None is the record NoneVal;                                         *)
(*   - a dict is a function from its keys (strings) to values, {} is       *)
(*     EmptyDict; a DataFrame is the sequence of its rows (dicts that all  *)
(*     have the frame's columns as keys);                                  *)
(*   - a list is the record [list |-> the sequence of its items];          *)
(*   - a raised exception is the record [raised |-> message]; a message    *)
(*     is the tuple of the parts of the (f-)string.                        *)
(***************************************************************************)
EXTENDS Integers, Sequences, FiniteSets, TLC

VARIABLES
    property_data,      \* DataProcessor.property_data, a sequence of rows
    comparable_sales,   \* DataProcessor.comparable_sales, a sequence of rows
    call                \* the last operation performed, its arguments and what it returned

vars == <<property_data, comparable_sales, call>>

---------------------------------------------------------------------------
(* Exact rational arithmetic standing for Python's numbers.                *)

Abs(k) == IF k < 0 THEN -k ELSE k

RECURSIVE GCD(_, _)
GCD(a, b) == IF b = 0 THEN a ELSE GCD(b, a % b)

R(n, d) ==
    LET s == IF d < 0 THEN -1 ELSE 1
        g == GCD(Abs(n), Abs(d))
    IN  [n |-> (s * n) \div g, d |-> (s * d) \div g]

RInt(k) == [n |-> k, d |-> 1]

Zero == RInt(0)
One == RInt(1)
Half == R(1, 2)

IsNum(v) == DOMAIN v = {"n", "d"}

RNeg(x) == [n |-> -x.n, d |-> x.d]

RAdd(x, y) ==
    LET g == GCD(x.d, y.d)
    IN  R(x.n * (y.d \div g) + y.n * (x.d \div g), x.d * (y.d \div g))

RSub(x, y) == RAdd(x, RNeg(y))

\* cross-cancelling before multiplying keeps the intermediate products small
RMul(x, y) ==
    LET g1 == GCD(Abs(x.n), y.d)
        g2 == GCD(Abs(y.n), x.d)
    IN  R((x.n \div g1) * (y.n \div g2), (x.d \div g2) * (y.d \div g1))

\* y # 0
RDiv(x, y) ==
    RMul(x, IF y.n < 0 THEN [n |-> -y.d, d |-> -y.n] ELSE [n |-> y.d, d |-> y.n])

\* a/b <= c/d for b, d > 0, by comparing integer parts and then the
\* reciprocals of the fractional parts (no products, so no overflow)
RECURSIVE LeQ(_, _, _, _)
LeQ(a, b, c, d) ==
    LET q1 == a \div b
        q2 == c \div d
        r1 == a % b
        r2 == c % d
    IN  IF q1 # q2 THEN q1 < q2
        ELSE IF r1 = 0 THEN TRUE
        ELSE IF r2 = 0 THEN FALSE
        ELSE LeQ(d, r2, b, r1)

RLe(x, y) == LeQ(x.n, x.d, y.n, y.d)
RLt(x, y) == ~RLe(y, x)

\* Python's max(a, b) and min(a, b): the first argument wins a tie
RMax(x, y) == IF RLt(x, y) THEN y ELSE x
RMin(x, y) == IF RLt(y, x) THEN y ELSE x

\* round(x, 2): to the nearest hundredth, a tie to the even hundredth
Round2(x) ==
    LET i == x.n \div x.d
        r == x.n % x.d
        c == (100 * r) \div x.d
        r2 == (100 * r) % x.d
        up == \/ 2 * r2 > x.d
              \/ 2 * r2 = x.d /\ c % 2 = 1
    IN  RAdd(RInt(i), R(IF up THEN c + 1 ELSE c, 100))

---------------------------------------------------------------------------
(* Python's None, dicts and truth values.                                  *)

NoneVal == [none |-> TRUE]

EmptyDict == [k \in {} |-> NoneVal]

List(items) == [list |-> items]

\* `not x` for x a dict, a list or None
Falsy(x) == x = NoneVal \/ x = EmptyDict \/ x = List(<<>>)

\* dict.get(key, default)
Get(dict, key, default) == IF key \in DOMAIN dict THEN dict[key] ELSE default

Raise(message) == [raised |-> message]

IsRaised(x) == DOMAIN x = {"raised"}

\* str(property_id).strip() on the identifiers of the model: str(None) is
\* "None", strip() removes the padding of the padded identifier
StrStrip(property_id) ==
    IF property_id = " 1 " THEN "1" ELSE property_id

---------------------------------------------------------------------------
(* DataProcessor: the repository and the comparable selector.              *)

\* DataFrame.empty and DataFrame.columns
Empty(frame) == Len(frame) = 0
Columns(frame) == IF Len(frame) = 0 THEN {} ELSE DOMAIN frame[1]

\* self.load_data() as get_property_details and get_comparable_sales call
\* it: load_data takes two required positional parameters and is given
\* none, so the call raises TypeError before it reads any file
load_data_no_args == Raise(<<"TypeError">>)

\* Series.between(left, right), inclusive at both ends
Between(x, left, right) == RLe(left, x) /\ RLe(x, right)

get_property_details(property_id) ==
    IF Empty(property_data) /\ IsRaised(load_data_no_args)
    THEN \* the except branch returns None
         NoneVal
    ELSE IF "id" \notin Columns(property_data) THEN NoneVal
    ELSE LET matches == SelectSeq(property_data,
                          LAMBDA row : StrStrip(row.id) = StrStrip(property_id))
         IN  IF Empty(matches) THEN NoneVal ELSE matches[1]

\* the four filters of get_comparable_sales, each applied only when the
\* subject has the field
PropertyTypeFilter_Skipped(subject, comparables) == comparables

PropertyTypeFilter(subject, comparables) ==
    IF "property_type" \in DOMAIN subject
    THEN SelectSeq(comparables,
           LAMBDA c : c.property_type = subject.property_type)
    ELSE comparables

BedroomsFilter(subject, comparables) ==
    IF "bedrooms" \in DOMAIN subject
    THEN SelectSeq(comparables,
           LAMBDA c : Between(c.bedrooms,
                              RMax(One, RSub(subject.bedrooms, One)),
                              RAdd(subject.bedrooms, One)))
    ELSE comparables

BathroomsFilter(subject, comparables) ==
    IF "bathrooms" \in DOMAIN subject
    THEN SelectSeq(comparables,
           LAMBDA c : Between(c.bathrooms,
                              RMax(One, RSub(subject.bathrooms, Half)),
                              RAdd(subject.bathrooms, Half)))
    ELSE comparables

SqftFilter_Exclusive(subject, comparables) ==
    IF "sqft" \in DOMAIN subject
    THEN SelectSeq(comparables,
           LAMBDA c : /\ RLt(RMul(subject.sqft, R(8, 10)), c.sqft)
                      /\ RLt(c.sqft, RMul(subject.sqft, R(12, 10))))
    ELSE comparables

SqftFilter(subject, comparables) ==
    IF "sqft" \in DOMAIN subject
    THEN SelectSeq(comparables,
           LAMBDA c : Between(c.sqft,
                              RMul(subject.sqft, R(8, 10)),
                              RMul(subject.sqft, R(12, 10))))
    ELSE comparables

Head_n_Last(frame, n) ==
    SubSeq(frame, IF Len(frame) < n THEN 1 ELSE Len(frame) - n + 1, Len(frame))

\* DataFrame.head(n)
Head_n(frame, n) == SubSeq(frame, 1, IF Len(frame) < n THEN Len(frame) ELSE n)

\* the columns the filters read from the comparable frame; reading a column
\* the frame lacks raises KeyError
FilterColumns(subject) ==
    {"property_type", "bedrooms", "bathrooms", "sqft"} \cap DOMAIN subject

\* get_comparable_sales once the subject is there
SelectComparables(subject, max_comparables) ==
    IF Empty(comparable_sales) /\ IsRaised(load_data_no_args)
    THEN \* the except branch returns None
         NoneVal
    ELSE IF ~(FilterColumns(subject) \subseteq Columns(comparable_sales))
    THEN \* KeyError; the except branch returns None
         NoneVal
    ELSE LET comparables ==
               Head_n(SqftFilter(subject,
                      BathroomsFilter(subject,
                      BedroomsFilter(subject,
                      PropertyTypeFilter(subject, comparable_sales)))),
                      max_comparables)
         IN  IF Empty(comparables) THEN NoneVal
             ELSE \* DataFrame.to_dict('records')
                  List(comparables)

\* `if not subject: return None` and the rest of get_comparable_sales
SelectIfSubject(subject, max_comparables) ==
    IF Falsy(subject) THEN NoneVal ELSE SelectComparables(subject, max_comparables)

get_comparable_sales(property_id, max_comparables) ==
    SelectIfSubject(get_property_details(property_id), max_comparables)

MaxComparablesDefault == 5

---------------------------------------------------------------------------
(* numpy's statistics of a non-empty list of numbers.                      *)

RECURSIVE SumSeq(_)
SumSeq(xs) == IF xs = <<>> THEN Zero ELSE RAdd(xs[1], SumSeq(Tail(xs)))

\* np.mean
Mean(xs) == RDiv(SumSeq(xs), RInt(Len(xs)))

RECURSIVE Insert(_, _)
Insert(x, sorted) ==
    IF sorted = <<>> THEN <<x>>
    ELSE IF RLe(x, sorted[1]) THEN <<x>> \o sorted
    ELSE <<sorted[1]>> \o Insert(x, Tail(sorted))

RECURSIVE SortedSeq(_)
SortedSeq(xs) == IF xs = <<>> THEN <<>> ELSE Insert(xs[1], SortedSeq(Tail(xs)))

\* np.median: the middle element, or the mean of the two middle elements
Median(xs) ==
    LET sorted == SortedSeq(xs)
        n == Len(xs)
    IN  IF n % 2 = 1 THEN sorted[(n + 1) \div 2]
        ELSE RMul(Half, RAdd(sorted[n \div 2], sorted[n \div 2 + 1]))

\* min(list) and max(list)
MinSeq(xs) == SortedSeq(xs)[1]
MaxSeq(xs) == SortedSeq(xs)[Len(xs)]

\* The numbers of xs as integers over their common unit: xs[i] = u * Ints(xs)[i]
\* for one rational u > 0 (all 0 when every xs[i] is 0).
RECURSIVE LcmDen(_)
LcmDen(xs) ==
    IF xs = <<>> THEN 1
    ELSE LET l == LcmDen(Tail(xs)) IN (xs[1].d \div GCD(xs[1].d, l)) * l

RECURSIVE GcdSeq(_)
GcdSeq(ks) == IF ks = <<>> THEN 0 ELSE GCD(Abs(ks[1]), GcdSeq(Tail(ks)))

Ints(xs) ==
    LET l == LcmDen(xs)
        ks == [i \in 1..Len(xs) |-> xs[i].n * (l \div xs[i].d)]
        g == GcdSeq(ks)
    IN  IF g = 0 THEN ks ELSE [i \in 1..Len(xs) |-> ks[i] \div g]

RECURSIVE SumInts(_)
SumInts(ks) == IF ks = <<>> THEN 0 ELSE ks[1] + SumInts(Tail(ks))

\* Whole numbers above the range of the model checker's integers: the digits
\* to base 10000, lowest first.
RECURSIVE Big(_)
Big(k) == IF k = 0 THEN <<>> ELSE <<k % 10000>> \o Big(k \div 10000)

RECURSIVE BigAddCarry(_, _, _)
BigAddCarry(a, b, carry) ==
    IF a = <<>> /\ b = <<>> THEN Big(carry)
    ELSE LET x == (IF a = <<>> THEN 0 ELSE a[1]) + (IF b = <<>> THEN 0 ELSE b[1]) + carry
         IN  <<x % 10000>> \o BigAddCarry(IF a = <<>> THEN <<>> ELSE Tail(a),
                                           IF b = <<>> THEN <<>> ELSE Tail(b),
                                           x \div 10000)

BigAdd(a, b) == BigAddCarry(a, b, 0)

\* a times one digit
RECURSIVE BigMulDigit(_, _, _)
BigMulDigit(a, digit, carry) ==
    IF a = <<>> THEN Big(carry)
    ELSE LET x == a[1] * digit + carry
         IN  <<x % 10000>> \o BigMulDigit(Tail(a), digit, x \div 10000)

RECURSIVE BigMul(_, _)
BigMul(a, b) ==
    IF b = <<>> THEN <<>>
    ELSE BigAdd(BigMulDigit(a, b[1], 0), <<0>> \o BigMul(a, Tail(b)))

\* -1, 0 or 1 as a is below, equal to or above b
RECURSIVE BigCmp(_, _)
BigCmp(a, b) ==
    IF a = <<>> /\ b = <<>> THEN 0
    ELSE LET high == BigCmp(IF a = <<>> THEN <<>> ELSE Tail(a),
                            IF b = <<>> THEN <<>> ELSE Tail(b))
             x == IF a = <<>> THEN 0 ELSE a[1]
             y == IF b = <<>> THEN 0 ELSE b[1]
         IN  IF high # 0 THEN high ELSE IF x < y THEN -1 ELSE IF x > y THEN 1 ELSE 0

BigLe(a, b) == BigCmp(a, b) <= 0

RECURSIVE BigSumSquares(_)
BigSumSquares(ks) ==
    IF ks = <<>> THEN <<>>
    ELSE BigAdd(BigMul(Big(Abs(ks[1])), Big(Abs(ks[1]))), BigSumSquares(Tail(ks)))

\* (np.std(xs) / np.mean(xs)) ^ 2 for a mean that is not 0: with y = Ints(xs),
\* N = Len(xs), S the sum of the y and Q the sum of their squares, the
\* population variance is (N*Q - S^2) / N^2 and the squared mean S^2 / N^2
\* (the unit cancels), so the quotient is N*Q / S^2 - 1.  The pair
\* <<N*Q, S^2>>.
CoefVarSq(xs) ==
    LET y == Ints(xs)
        S == Big(Abs(SumInts(y)))
    IN  <<BigMul(Big(Len(y)), BigSumSquares(y)), BigMul(S, S)>>

\* (std_dev / mean) ^ 2 <= num / den, and >=, for cv = CoefVarSq(xs)
CoefVarSqLe(cv, num, den) ==
    BigLe(BigMul(Big(den), cv[1]), BigMul(Big(num + den), cv[2]))

CoefVarSqGe(cv, num, den) ==
    BigLe(BigMul(Big(num + den), cv[2]), BigMul(Big(den), cv[1]))

\* the largest k in lo..hi with std_dev/avg_value <= (201 - 2k) / 200 (below
\* it for an odd k), given that lo is one; the condition holds for every k
\* under one it holds for
RECURSIVE LargestHundredth(_, _, _)
LargestHundredth(cv, lo, hi) ==
    IF lo = hi THEN lo
    ELSE LET k == (lo + hi + 1) \div 2
             t == (201 - 2 * k) * (201 - 2 * k)
         IN  IF (IF k % 2 = 0 THEN CoefVarSqLe(cv, t, 40000)
                 ELSE ~CoefVarSqGe(cv, t, 40000))
             THEN LargestHundredth(cv, k, hi)
             ELSE LargestHundredth(cv, lo, k - 1)

\* round(min(1.0, max(0.5, 1 - (std_dev / avg_value))), 2) for avg_value # 0.
\* std_dev >= 0, so for a negative mean the quotient is <= 0 and the result
\* 1.0; for a positive mean it is k/100 for the largest k in 50..100 with
\* 100 * (1 - std_dev/avg_value) above k - 1/2, or equal to it and k even
\* (round's tie rule), that is std_dev/avg_value <= (201 - 2k) / 200, as
\* compared on the squares (below it for an odd k).
ConfidenceOf_NoFloor(xs) ==
    IF RLt(Mean(xs), Zero) THEN One
    ELSE R(LargestHundredth(CoefVarSq(xs), 0, 100), 100)

ConfidenceOf(xs) ==
    IF RLt(Mean(xs), Zero) THEN One
    ELSE R(LargestHundredth(CoefVarSq(xs), 50, 100), 100)

---------------------------------------------------------------------------
(* ValuationResult and ValuationCalculator.                                *)

\* ValuationResult.__init__
ValuationResult_Unclamped(method, value, confidence, details) ==
    [method |-> method,
     value |-> value,
     confidence |-> confidence,
     details |-> IF Falsy(details) THEN EmptyDict ELSE details]

ValuationResult(method, value, confidence, details) ==
    [method |-> method,
     value |-> value,
     confidence |-> RMax(Zero, RMin(One, confidence)),
     details |-> IF Falsy(details) THEN EmptyDict ELSE details]

\* `except Exception as e: return ValuationResult(method, 0, 0, {'error': str(e)})`
\* around the outcome of a try block
Try(method, outcome) ==
    IF IsRaised(outcome)
    THEN ValuationResult(method, Zero, Zero, [error |-> outcome.raised])
    ELSE outcome

AdjustmentRecord_AdjustedAsOriginal(comp, size_adj, bed_adj, bath_adj) ==
    [comp_id |-> Get(comp, "id", NoneVal),
     original_price |-> RAdd(Get(comp, "sale_price", Zero),
                             RAdd(RAdd(size_adj, bed_adj), bath_adj)),
     adjustments |-> [size |-> size_adj, bedrooms |-> bed_adj, bathrooms |-> bath_adj],
     adjusted_price |-> RAdd(Get(comp, "sale_price", Zero),
                             RAdd(RAdd(size_adj, bed_adj), bath_adj))]

\* the record the loop body of calculate_sales_comparison appends
AdjustmentRecord(comp, size_adj, bed_adj, bath_adj) ==
    [comp_id |-> Get(comp, "id", NoneVal),
     original_price |-> Get(comp, "sale_price", NoneVal),
     adjustments |-> [size |-> size_adj, bedrooms |-> bed_adj, bathrooms |-> bath_adj],
     \* total_adj = size_adj + bed_adj + bath_adj;
     \* adjusted_price = comp.get('sale_price', 0) + total_adj
     adjusted_price |-> RAdd(Get(comp, "sale_price", Zero),
                             RAdd(RAdd(size_adj, bed_adj), bath_adj))]

Adjust_FullSize(property_details, comp) ==
    LET price_per_sqft == RDiv(Get(comp, "sale_price", Zero),
                               RMax(One, Get(comp, "sqft", One)))
        size_diff == RSub(Get(property_details, "sqft", Zero), Get(comp, "sqft", Zero))
        bed_diff == RSub(Get(property_details, "bedrooms", Zero),
                         Get(comp, "bedrooms", Zero))
        bath_diff == RSub(Get(property_details, "bathrooms", Zero),
                          Get(comp, "bathrooms", Zero))
    IN  AdjustmentRecord(comp,
                         RMul(size_diff, price_per_sqft),
                         RMul(bed_diff, RInt(10000)),
                         RMul(bath_diff, RInt(7500)))

Adjust_BathroomAtBedroomRate(property_details, comp) ==
    LET price_per_sqft == RDiv(Get(comp, "sale_price", Zero),
                               RMax(One, Get(comp, "sqft", One)))
        size_diff == RSub(Get(property_details, "sqft", Zero), Get(comp, "sqft", Zero))
        bed_diff == RSub(Get(property_details, "bedrooms", Zero),
                         Get(comp, "bedrooms", Zero))
        bath_diff == RSub(Get(property_details, "bathrooms", Zero),
                          Get(comp, "bathrooms", Zero))
    IN  AdjustmentRecord(comp,
                         RMul(RMul(size_diff, price_per_sqft), Half),
                         RMul(bed_diff, RInt(10000)),
                         RMul(bath_diff, RInt(10000)))

\* the loop body of calculate_sales_comparison for one comparable
Adjust(property_details, comp) ==
    LET price_per_sqft == RDiv(Get(comp, "sale_price", Zero),
                               RMax(One, Get(comp, "sqft", One)))
        size_diff == RSub(Get(property_details, "sqft", Zero), Get(comp, "sqft", Zero))
        bed_diff == RSub(Get(property_details, "bedrooms", Zero),
                         Get(comp, "bedrooms", Zero))
        bath_diff == RSub(Get(property_details, "bathrooms", Zero),
                          Get(comp, "bathrooms", Zero))
    IN  AdjustmentRecord(comp,
                         RMul(RMul(size_diff, price_per_sqft), Half),
                         RMul(bed_diff, RInt(10000)),
                         RMul(bath_diff, RInt(7500)))

\* an operand of the loop body's arithmetic that is no number raises TypeError
AdjustRaises(property_details, comp) ==
    \E v \in {Get(property_details, "sqft", Zero),
              Get(property_details, "bedrooms", Zero),
              Get(property_details, "bathrooms", Zero),
              Get(comp, "sale_price", Zero), Get(comp, "sqft", One),
              Get(comp, "bedrooms", Zero), Get(comp, "bathrooms", Zero)} : ~IsNum(v)

\* str(property_details.get('id')): the identifier reaches the repository
\* only through str(property_id).strip(), and str(None) is "None"
IdOf(property_details) == Get(property_details, "id", "None")

\* the successful return of calculate_sales_comparison
SalesResult(comparables, adjustments, adjusted_prices, avg_value, confidence) ==
    ValuationResult("sales_comparison",
        Round2(avg_value),
        Round2(confidence),
        [comparables |-> comparables,
         adjustments |-> List(adjustments),
         \* std_dev, in general irrational, is left out
         statistics |->
             [mean |-> Round2(avg_value),
              median |-> Round2(Median(adjusted_prices)),
              min |-> Round2(MinSeq(adjusted_prices)),
              max |-> Round2(MaxSeq(adjusted_prices)),
              count |-> Len(adjusted_prices)]])

\* avg_value, std_dev and confidence of calculate_sales_comparison
SalesStatistics(comparables, adjustments, adjusted_prices, avg_value) ==
    SalesResult(comparables, adjustments, adjusted_prices, avg_value,
                IF avg_value # Zero THEN ConfidenceOf(adjusted_prices) ELSE Half)

\* the loop of calculate_sales_comparison done
SalesAdjusted(comparables, adjustments) ==
    LET adjusted_prices == [i \in DOMAIN adjustments |-> adjustments[i].adjusted_price]
    IN  SalesStatistics(comparables, adjustments, adjusted_prices, Mean(adjusted_prices))

SalesFrom_EmptyIsZero(property_details, comparables) ==
    IF Falsy(comparables)
    THEN ValuationResult("sales_comparison", Zero, Half, EmptyDict)
    ELSE IF \E i \in DOMAIN comparables.list :
                AdjustRaises(property_details, comparables.list[i])
    THEN Raise(<<"TypeError">>)
    ELSE SalesAdjusted(comparables,
                       [i \in DOMAIN comparables.list |->
                           Adjust(property_details, comparables.list[i])])

\* calculate_sales_comparison from the comparables on
SalesFrom(property_details, comparables) ==
    IF Falsy(comparables) THEN Raise(<<"No comparable sales found">>)
    ELSE IF \E i \in DOMAIN comparables.list :
                AdjustRaises(property_details, comparables.list[i])
    THEN Raise(<<"TypeError">>)
    ELSE SalesAdjusted(comparables,
                       [i \in DOMAIN comparables.list |->
                           Adjust(property_details, comparables.list[i])])

calculate_sales_comparison_FiltersByPassedSubject(property_details) ==
    Try("sales_comparison",
        IF Falsy(property_details) THEN Raise(<<"No property details provided">>)
        ELSE SalesFrom(property_details,
                       IF \A k \in {"bedrooms", "bathrooms", "sqft"} \cap DOMAIN property_details :
                             IsNum(property_details[k])
                       THEN SelectIfSubject(property_details, MaxComparablesDefault)
                       ELSE get_comparable_sales(IdOf(property_details),
                                                 MaxComparablesDefault)))

calculate_sales_comparison(property_details) ==
    Try("sales_comparison",
        IF Falsy(property_details) THEN Raise(<<"No property details provided">>)
        ELSE SalesFrom(property_details,
                       get_comparable_sales(IdOf(property_details),
                                            MaxComparablesDefault)))

IncomeResult_GrossRent(annual_rent, market_cap_rate, noi) ==
    ValuationResult("income_approach",
        Round2(RDiv(annual_rent, market_cap_rate)),
        R(7, 10),
        [noi |-> Round2(noi),
         cap_rate |-> market_cap_rate,
         annual_rent |-> annual_rent,
         expense_ratio |-> R(25, 100)])

\* the successful return of calculate_income_approach
IncomeResult(annual_rent, market_cap_rate, noi) ==
    ValuationResult("income_approach",
        Round2(RDiv(noi, market_cap_rate)),
        R(7, 10),
        [noi |-> Round2(noi),
         cap_rate |-> market_cap_rate,
         annual_rent |-> annual_rent,
         expense_ratio |-> R(25, 100)])

IncomeFrom_MissingIsZero(annual_rent) ==
    IF annual_rent = NoneVal THEN IncomeResult(Zero, R(6, 100), Zero)
    ELSE IF ~IsNum(annual_rent) THEN Raise(<<"TypeError">>)
    ELSE IncomeResult(annual_rent, R(6, 100), RMul(annual_rent, R(75, 100)))

\* calculate_income_approach from the annual_rent on
IncomeFrom(annual_rent) ==
    IF annual_rent = NoneVal THEN Raise(<<"Annual rent data missing">>)
    ELSE IF ~IsNum(annual_rent) THEN Raise(<<"TypeError">>)
    ELSE IncomeResult(annual_rent, R(6, 100), RMul(annual_rent, R(75, 100)))

calculate_income_approach(property_details) ==
    Try("income_approach",
        IF Falsy(property_details) THEN Raise(<<"No property details provided">>)
        ELSE IncomeFrom(Get(property_details, "annual_rent", NoneVal)))

\* the successful return of calculate_cost_approach
CostResult(cost_per_sqft, land_value_per_sqft, building_value, depreciation, land_value) ==
    ValuationResult("cost_approach",
        Round2(RSub(RAdd(land_value, building_value), depreciation)),
        R(6, 10),
        [land_value |-> Round2(land_value),
         building_value |-> Round2(building_value),
         depreciation |-> Round2(depreciation),
         cost_per_sqft |-> cost_per_sqft,
         land_value_per_sqft |-> land_value_per_sqft])

CostFrom_NoDepreciation(lot_size, cost_per_sqft, land_value_per_sqft, building_value) ==
    CostResult(cost_per_sqft, land_value_per_sqft, building_value,
               Zero,
               RMul(lot_size, land_value_per_sqft))

\* calculate_cost_approach from building_value on
CostFrom(lot_size, cost_per_sqft, land_value_per_sqft, building_value) ==
    CostResult(cost_per_sqft, land_value_per_sqft, building_value,
               RMul(building_value, R(1, 10)),
               RMul(lot_size, land_value_per_sqft))

calculate_cost_approach(property_details) ==
    Try("cost_approach",
        IF Falsy(property_details) THEN Raise(<<"No property details provided">>)
        ELSE IF \/ ~IsNum(Get(property_details, "sqft", Zero))
                \/ ~IsNum(Get(property_details, "lot_size", Zero))
        THEN Raise(<<"TypeError">>)
        ELSE CostFrom(Get(property_details, "lot_size", Zero), RInt(150), RInt(2),
                      RMul(Get(property_details, "sqft", Zero), RInt(150))))

\* the weights dict of calculate_hybrid_valuation
weights_Equal ==
    [sales_comparison |-> R(1, 3), income_approach |-> R(1, 3), cost_approach |-> R(1, 3)]

weights ==
    [sales_comparison |-> R(5, 10), income_approach |-> R(3, 10), cost_approach |-> R(2, 10)]

\* calculate_hybrid_valuation from the three sub-results on
Combine_Renormalized(sales_comp, income, cost) ==
    LET Ok(r) == "error" \notin DOMAIN r.details
        W(r, w) == IF Ok(r) THEN w ELSE Zero
        total == RAdd(RAdd(W(sales_comp, weights.sales_comparison),
                           W(income, weights.income_approach)),
                      W(cost, weights.cost_approach))
        Share(r, w) == IF total = Zero THEN Zero ELSE RDiv(W(r, w), total)
    IN  ValuationResult("hybrid",
            Round2(RAdd(RAdd(RMul(sales_comp.value, Share(sales_comp, weights.sales_comparison)),
                             RMul(income.value, Share(income, weights.income_approach))),
                        RMul(cost.value, Share(cost, weights.cost_approach)))),
            Round2(RAdd(RAdd(RMul(sales_comp.confidence,
                                  Share(sales_comp, weights.sales_comparison)),
                             RMul(income.confidence, Share(income, weights.income_approach))),
                        RMul(cost.confidence, Share(cost, weights.cost_approach)))),
            [components |-> [sales_comparison |-> sales_comp.details,
                             income_approach |-> income.details,
                             cost_approach |-> cost.details],
             weights |-> weights])

Combine_ErrorWhenAllFail(sales_comp, income, cost) ==
    IF /\ "error" \in DOMAIN sales_comp.details
       /\ "error" \in DOMAIN income.details
       /\ "error" \in DOMAIN cost.details
    THEN Raise(<<"All valuation methods failed">>)
    ELSE ValuationResult("hybrid",
             Round2(RAdd(RAdd(RMul(sales_comp.value, weights.sales_comparison),
                              RMul(income.value, weights.income_approach)),
                         RMul(cost.value, weights.cost_approach))),
             Round2(RAdd(RAdd(RMul(sales_comp.confidence, weights.sales_comparison),
                              RMul(income.confidence, weights.income_approach)),
                         RMul(cost.confidence, weights.cost_approach))),
             [components |-> [sales_comparison |-> sales_comp.details,
                              income_approach |-> income.details,
                              cost_approach |-> cost.details],
              weights |-> weights])

Combine(sales_comp, income, cost) ==
    ValuationResult("hybrid",
        \* weighted_value
        Round2(RAdd(RAdd(RMul(sales_comp.value, weights.sales_comparison),
                         RMul(income.value, weights.income_approach)),
                    RMul(cost.value, weights.cost_approach))),
        \* weighted_confidence
        Round2(RAdd(RAdd(RMul(sales_comp.confidence, weights.sales_comparison),
                         RMul(income.confidence, weights.income_approach)),
                    RMul(cost.confidence, weights.cost_approach))),
        [components |-> [sales_comparison |-> sales_comp.details,
                         income_approach |-> income.details,
                         cost_approach |-> cost.details],
         weights |-> weights])

calculate_hybrid_valuation(property_details) ==
    Try("hybrid",
        Combine(calculate_sales_comparison(property_details),
                calculate_income_approach(property_details),
                calculate_cost_approach(property_details)))

calculate_valuation_DefaultsToHybrid(property_details, method) ==
    Try(method,
        IF Falsy(property_details) THEN Raise(<<"No property details provided">>)
        ELSE IF method = "sales_comparison"
        THEN calculate_sales_comparison(property_details)
        ELSE IF method = "income_approach"
        THEN calculate_income_approach(property_details)
        ELSE IF method = "cost_approach"
        THEN calculate_cost_approach(property_details)
        ELSE calculate_hybrid_valuation(property_details))

calculate_valuation_ErrorsAsHybrid(property_details, method) ==
    Try("hybrid",
        IF Falsy(property_details) THEN Raise(<<"No property details provided">>)
        ELSE IF method = "sales_comparison"
        THEN calculate_sales_comparison(property_details)
        ELSE IF method = "income_approach"
        THEN calculate_income_approach(property_details)
        ELSE IF method = "cost_approach"
        THEN calculate_cost_approach(property_details)
        ELSE IF method = "hybrid"
        THEN calculate_hybrid_valuation(property_details)
        ELSE Raise(<<"Unknown valuation method: ", method>>))

calculate_valuation_MethodFirst(property_details, method) ==
    Try(method,
        IF method = "sales_comparison"
        THEN calculate_sales_comparison(property_details)
        ELSE IF method = "income_approach"
        THEN calculate_income_approach(property_details)
        ELSE IF method = "cost_approach"
        THEN calculate_cost_approach(property_details)
        ELSE IF method = "hybrid"
        THEN calculate_hybrid_valuation(property_details)
        ELSE IF Falsy(property_details) THEN Raise(<<"No property details provided">>)
        ELSE Raise(<<"Unknown valuation method: ", method>>))

calculate_valuation(property_details, method) ==
    Try(method,
        IF Falsy(property_details) THEN Raise(<<"No property details provided">>)
        ELSE IF method = "sales_comparison"
        THEN calculate_sales_comparison(property_details)
        ELSE IF method = "income_approach"
        THEN calculate_income_approach(property_details)
        ELSE IF method = "cost_approach"
        THEN calculate_cost_approach(property_details)
        ELSE IF method = "hybrid"
        THEN calculate_hybrid_valuation(property_details)
        ELSE Raise(<<"Unknown valuation method: ", method>>))

---------------------------------------------------------------------------
(* The inputs of the model.                                                *)

\* the longest comparable-sales file
MaxComps == 2

PropertyRow(id, property_type, bedrooms, bathrooms, sqft, lot_size) ==
    [id |-> id, property_type |-> property_type, bedrooms |-> bedrooms,
     bathrooms |-> bathrooms, sqft |-> sqft, lot_size |-> lot_size]

ComparableRow(id, property_type, bedrooms, bathrooms, sqft, sale_price) ==
    [id |-> id, property_type |-> property_type, bedrooms |-> bedrooms,
     bathrooms |-> bathrooms, sqft |-> sqft, sale_price |-> sale_price]

\* rows of the property file: the first is property 1 of the default file
P1 == PropertyRow("1", "Single Family", RInt(3), R(5, 2), RInt(1800), R(1, 4))
P2 == PropertyRow("2", "Single Family", RInt(1), RInt(1), RInt(1800), R(1, 10))
P1Padded == [P1 EXCEPT !.id = " 1 "]

PropertyFiles ==
    {<<>>, <<P1Padded, P2>>, <<P2, P1>>}

\* the rows a comparable-sales file is made of, in the order of the file:
\* 101 and 102 are the rows of the default file
ComparableCatalogue ==
    <<ComparableRow("102", "Single Family", RInt(4), R(5, 2), RInt(2000), RInt(800000)),
      ComparableRow("101", "Single Family", RInt(3), RInt(2), RInt(1750), RInt(725000)),
      ComparableRow("107", "Condo", RInt(3), RInt(2), RInt(1750), RInt(725000)),
      ComparableRow("105", "Single Family", RInt(3), R(5, 2), RInt(1440), RInt(720000)),
      ComparableRow("104", "Single Family", RInt(3), R(5, 2), R(216001, 100), RInt(756000)),
      ComparableRow("110", "Single Family", RInt(1), RInt(1), RInt(1800), RInt(450000)),
      ComparableRow("103", "Single Family", RInt(2), RInt(3), RInt(2160), RInt(756000)),
      ComparableRow("108", "Single Family", RInt(0), RInt(1), RInt(1800), RInt(900000)),
      ComparableRow("106", "Single Family", RInt(3), R(5, 2), R(143999, 100), RInt(720000)),
      ComparableRow("109", "Single Family", RInt(1), R(1, 2), RInt(1800), RInt(900000)),
      \* a low-priced sale of a larger house
      ComparableRow("111", "Single Family", RInt(4), RInt(3), RInt(2100), RInt(10000))>>

\* the rows of a catalogue at the indices I, in the catalogue's order
RECURSIVE Pick(_, _)
Pick(rows, I) ==
    IF I = {} THEN <<>>
    ELSE LET i == CHOOSE i \in I : \A j \in I : i <= j
         IN  <<rows[i]>> \o Pick(rows, I \ {i})

\* a file without the sale_price column: every row lacks the key
WithoutSalePrice(frame) ==
    [i \in DOMAIN frame |->
        [k \in DOMAIN frame[i] \ {"sale_price"} |-> frame[i][k]]]

ComparableFiles ==
    LET priced == {Pick(ComparableCatalogue, I) :
                      I \in {J \in SUBSET DOMAIN ComparableCatalogue :
                                Cardinality(J) <= MaxComps}}
    IN  priced \cup {WithoutSalePrice(f) : f \in {g \in priced : Len(g) = 1}}

\* the property_details a caller passes: absent, empty, rows of the
\* repository, and dicts of the caller's own
Subjects ==
    {NoneVal,
     EmptyDict,
     P1,
     P2,
     \* property 1 with a rent
     [id |-> "1", property_type |-> "Single Family", bedrooms |-> RInt(3),
      bathrooms |-> R(5, 2), sqft |-> RInt(1800), lot_size |-> R(1, 4),
      annual_rent |-> RInt(48000)],
     \* the id of property 1 (padded), other fields, no lot_size
     [id |-> " 1 ", bedrooms |-> RInt(4), bathrooms |-> RInt(3), sqft |-> RInt(2000),
      annual_rent |-> RInt(0)],
     \* an id the repository does not hold, no sqft
     [id |-> "9", property_type |-> "Single Family", bedrooms |-> RInt(3),
      bathrooms |-> R(5, 2), lot_size |-> R(1, 4)],
     \* no id, a sqft that is no number, and a rent with cents
     [address |-> "123 Main St", sqft |-> [str |-> "n/a"],
      annual_rent |-> R(4800001, 100)],
     \* property 2 with a lot size in thousandths and a negative rent
     [id |-> "2", property_type |-> "Single Family", bedrooms |-> RInt(1),
      bathrooms |-> RInt(1), sqft |-> RInt(1800), lot_size |-> R(172, 1000),
      annual_rent |-> RInt(-12000)],
     \* the id of property 1 and a sqft that is no number
     [id |-> "1", sqft |-> [str |-> "n/a"], bedrooms |-> RInt(3), bathrooms |-> R(5, 2)]}

Methods == {"sales_comparison", "income_approach", "cost_approach", "hybrid", "made_up"}

PropertyIds == {"1", "2", " 1 ", "9"}

MaxComparablesArgs == {1, MaxComparablesDefault}

\* confidences and details a ValuationResult is constructed with directly
Confidences == {R(-1, 2), Zero, R(1, 2), One, R(3, 2)}
DetailsArgs == {NoneVal, [note |-> "appraisal"]}

---------------------------------------------------------------------------
(* The state machine.                                                      *)

Idle == [op |-> "none"]

\* DataProcessor.__init__ and ValuationCalculator.__init__
Init ==
    /\ property_data = <<>>
    /\ comparable_sales = <<>>
    /\ call = Idle

\* main builds a new DataProcessor and a new ValuationCalculator on it
NewProcessor ==
    /\ property_data' = <<>>
    /\ comparable_sales' = <<>>
    /\ call' = Idle

\* _clean_data: the ids of the property rows as stripped strings (the
\* numeric columns of the model's comparable rows are numbers already)
clean_data(frame) ==
    [i \in DOMAIN frame |->
        IF "id" \in DOMAIN frame[i]
        THEN [frame[i] EXCEPT !.id = StrStrip(frame[i].id)]
        ELSE frame[i]]

\* load_data_from_csv / load_data with its two arguments: both read the two
\* configured files, whatever they are given.  valid: _validate_file accepts
\* both files.  The callers load a processor once, right after building it.
load_data(property_file, comparable_file, valid) ==
    /\ Empty(property_data) /\ Empty(comparable_sales)
    /\ IF valid
       THEN /\ property_data' = clean_data(property_file)
            /\ comparable_sales' = comparable_file
       ELSE UNCHANGED <<property_data, comparable_sales>>
    /\ call' = [op |-> "load_data", result |-> valid]

\* the caller is done with what the last call returned
Return ==
    /\ call # Idle
    /\ call' = Idle
    /\ UNCHANGED <<property_data, comparable_sales>>

GetComparableSales(property_id, max_comparables) ==
    /\ call = Idle
    /\ call' = [op |-> "get_comparable_sales",
                property_id |-> property_id,
                max_comparables |-> max_comparables,
                result |-> get_comparable_sales(property_id, max_comparables)]
    /\ UNCHANGED <<property_data, comparable_sales>>

\* a lookup by the caller.  property_file and valid are the configured
\* property file as it is on disk at the call and whether load_data with its
\* two arguments would accept the two files; the lookup as written reads
\* neither (its load_data() raises before any file is touched), so both
\* frames stay as they are.  loaded: the processor held property rows when
\* the call was made.
GetPropertyDetails(property_id, property_file, valid) ==
    /\ call = Idle
    /\ call' = [op |-> "get_property_details",
                property_id |-> property_id,
                property_file |-> property_file,
                valid |-> valid,
                loaded |-> ~Empty(property_data),
                result |-> get_property_details(property_id)]
    /\ UNCHANGED <<property_data, comparable_sales>>

Construct(method, value, confidence, details) ==
    /\ call = Idle
    /\ call' = [op |-> "ValuationResult",
                confidence |-> confidence,
                result |-> ValuationResult(method, value, confidence, details)]
    /\ UNCHANGED <<property_data, comparable_sales>>

CalculateSalesComparison_ConsumesFrame(property_details) ==
    /\ call = Idle
    /\ call' = [op |-> "calculate_sales_comparison",
                property_details |-> property_details,
                result |-> calculate_sales_comparison(property_details)]
    /\ comparable_sales' = <<>>
    /\ UNCHANGED property_data

CalculateSalesComparison(property_details) ==
    /\ call = Idle
    /\ call' = [op |-> "calculate_sales_comparison",
                property_details |-> property_details,
                result |-> calculate_sales_comparison(property_details)]
    /\ UNCHANGED <<property_data, comparable_sales>>

CalculateIncomeApproach(property_details) ==
    /\ call = Idle
    /\ call' = [op |-> "calculate_income_approach",
                property_details |-> property_details,
                result |-> calculate_income_approach(property_details)]
    /\ UNCHANGED <<property_data, comparable_sales>>

CalculateCostApproach(property_details) ==
    /\ call = Idle
    /\ call' = [op |-> "calculate_cost_approach",
                property_details |-> property_details,
                result |-> calculate_cost_approach(property_details)]
    /\ UNCHANGED <<property_data, comparable_sales>>

CalculateHybridValuation(property_details) ==
    /\ call = Idle
    /\ call' = [op |-> "calculate_hybrid_valuation",
                property_details |-> property_details,
                result |-> calculate_hybrid_valuation(property_details)]
    /\ UNCHANGED <<property_data, comparable_sales>>

CalculateValuation_FiltersInPlace(property_details, method) ==
    /\ call = Idle
    /\ call' = [op |-> "calculate_valuation",
                property_details |-> property_details,
                method |-> method,
                result |-> calculate_valuation(property_details, method)]
    /\ comparable_sales' =
         (IF Falsy(property_details)
             \/ get_comparable_sales(IdOf(property_details), MaxComparablesDefault) = NoneVal
          THEN comparable_sales
          ELSE get_comparable_sales(IdOf(property_details), MaxComparablesDefault).list)
    /\ UNCHANGED property_data

CalculateValuation(property_details, method) ==
    /\ call = Idle
    /\ call' = [op |-> "calculate_valuation",
                property_details |-> property_details,
                method |-> method,
                result |-> calculate_valuation(property_details, method)]
    /\ UNCHANGED <<property_data, comparable_sales>>

\* VALUATION_METHODS of config.py
VALUATION_METHODS ==
    <<"sales_comparison", "income_approach", "cost_approach", "hybrid">>

RECURSIVE InsertByConfidence_BeforeEquals(_, _)
InsertByConfidence_BeforeEquals(r, sorted) ==
    IF sorted = <<>> THEN <<r>>
    ELSE IF RLe(sorted[1].confidence, r.confidence) THEN <<r>> \o sorted
    ELSE <<sorted[1]>> \o InsertByConfidence_BeforeEquals(r, Tail(sorted))

\* list.sort(key=lambda x: x.confidence, reverse=True): the sort is stable,
\* also with reverse=True, so a result goes behind every result already
\* placed whose confidence is not lower
RECURSIVE InsertByConfidence(_, _)
InsertByConfidence(r, sorted) ==
    IF sorted = <<>> THEN <<r>>
    ELSE IF RLt(sorted[1].confidence, r.confidence) THEN <<r>> \o sorted
    ELSE <<sorted[1]>> \o InsertByConfidence(r, Tail(sorted))

RECURSIVE SortByConfidence(_)
SortByConfidence(results) ==
    IF results = <<>> THEN <<>>
    ELSE InsertByConfidence(results[Len(results)],
                            SortByConfidence(SubSeq(results, 1, Len(results) - 1)))

valuation_results_SkipsFailed(property_details) ==
    SortByConfidence(
        SelectSeq([i \in DOMAIN VALUATION_METHODS |->
                      calculate_valuation(property_details, VALUATION_METHODS[i])],
                  LAMBDA r : "error" \notin DOMAIN r.details))

\* the all-methods branch of main: one calculate_valuation per configured
\* method (`if result` holds for every ValuationResult object), then the sort
valuation_results(property_details) ==
    SortByConfidence([i \in DOMAIN VALUATION_METHODS |->
                         calculate_valuation(property_details, VALUATION_METHODS[i])])

\* main reaches the branch only with property details that are not empty
AllMethods(property_details) ==
    /\ call = Idle
    /\ ~Falsy(property_details)
    /\ call' = [op |-> "all_methods",
                property_details |-> property_details,
                result |-> List(valuation_results(property_details))]
    /\ UNCHANGED <<property_data, comparable_sales>>

\* the four method calculators by name
CalculatorOps ==
    {"calculate_sales_comparison", "calculate_income_approach",
     "calculate_cost_approach", "calculate_hybrid_valuation"}

Calculator(op, property_details) ==
    IF op = "calculate_sales_comparison" THEN calculate_sales_comparison(property_details)
    ELSE IF op = "calculate_income_approach"
    THEN calculate_income_approach(property_details)
    ELSE IF op = "calculate_cost_approach" THEN calculate_cost_approach(property_details)
    ELSE calculate_hybrid_valuation(property_details)

\* the caller calls the same calculator again with the same subject, on the
\* processor as the first call left it, and keeps the first result
CallAgain ==
    /\ call.op \in CalculatorOps
    /\ "previous" \notin DOMAIN call
    /\ call' = [op |-> call.op,
                property_details |-> call.property_details,
                result |-> Calculator(call.op, call.property_details),
                previous |-> call.result]
    /\ UNCHANGED <<property_data, comparable_sales>>

\* load_data called again on a loaded processor after the comparable-sales
\* file has lost its first row (a sale withdrawn); the property file is as it
\* was, and cleaning it again gives the same rows.  The caller keeps what the
\* dispatcher returned before the change.
load_data_changed ==
    /\ call.op = "calculate_valuation"
    /\ "earlier" \notin DOMAIN call
    /\ ~Empty(comparable_sales)
    /\ property_data' = clean_data(property_data)
    /\ comparable_sales' = Tail(comparable_sales)
    /\ call' = [op |-> "load_data", result |-> TRUE, earlier |-> call]

CalculateValuationAgain_Cached ==
    /\ call.op = "load_data"
    /\ "earlier" \in DOMAIN call
    /\ call' = [op |-> "calculate_valuation",
                property_details |-> call.earlier.property_details,
                method |-> call.earlier.method,
                result |-> call.earlier.result,
                earlier |-> call.earlier.result]
    /\ UNCHANGED <<property_data, comparable_sales>>

\* the caller asks the dispatcher again, with the same subject and method,
\* after the data has changed
CalculateValuationAgain ==
    /\ call.op = "load_data"
    /\ "earlier" \in DOMAIN call
    /\ call' = [op |-> "calculate_valuation",
                property_details |-> call.earlier.property_details,
                method |-> call.earlier.method,
                result |-> calculate_valuation(call.earlier.property_details,
                                               call.earlier.method),
                earlier |-> call.earlier.result]
    /\ UNCHANGED <<property_data, comparable_sales>>

Next ==
    \/ NewProcessor
    \/ /\ Empty(property_data) /\ Empty(comparable_sales)
       /\ \E pf \in PropertyFiles, cf \in ComparableFiles, valid \in BOOLEAN :
             load_data(pf, cf, valid)
    \/ Return
    \/ \E id \in PropertyIds, n \in MaxComparablesArgs : GetComparableSales(id, n)
    \/ \E id \in PropertyIds, pf \in PropertyFiles, valid \in BOOLEAN :
          GetPropertyDetails(id, pf, valid)
    \/ \E c \in Confidences, d \in DetailsArgs :
          Construct("cost_approach", RInt(1000), c, d)
    \/ \E s \in Subjects : CalculateSalesComparison(s)
    \/ \E s \in Subjects : CalculateIncomeApproach(s)
    \/ \E s \in Subjects : CalculateCostApproach(s)
    \/ \E s \in Subjects : CalculateHybridValuation(s)
    \/ \E s \in Subjects, m \in Methods : CalculateValuation(s, m)
    \/ \E s \in Subjects : AllMethods(s)
    \/ CallAgain
    \/ load_data_changed
    \/ CalculateValuationAgain

Spec == Init /\ [][Next]_vars

---------------------------------------------------------------------------
(* Properties.                                                             *)

IsValuationResult(r) == DOMAIN r = {"method", "value", "confidence", "details"}

\* the public entry points of the engine that take the subject
EntryOps ==
    {"calculate_sales_comparison", "calculate_income_approach",
     "calculate_cost_approach", "calculate_hybrid_valuation", "calculate_valuation"}

\* every operation that constructs and returns a ValuationResult
ResultOps == EntryOps \cup {"ValuationResult"}

ValidMethods == {"sales_comparison", "income_approach", "cost_approach", "hybrid"}

HasError(r) == "error" \in DOMAIN r.details

\* the last call ran the hybrid combiner on call.property_details
IsHybridCall ==
    \/ call.op = "calculate_hybrid_valuation"
    \/ /\ call.op = "calculate_valuation"
       /\ call.method = "hybrid"
       /\ ~Falsy(call.property_details)

\* C1: every ValuationResult that is constructed has a confidence between 0
\* and 1, whatever confidence was passed to the constructor.
C1_ConfidenceClamped ==
    call.op \in ResultOps =>
        /\ IsValuationResult(call.result)
        /\ RLe(Zero, call.result.confidence)
        /\ RLe(call.result.confidence, One)

\* a result constructed directly with a confidence above 1 carries 1
C1_Witness ==
    /\ call.op = "ValuationResult"
    /\ RLt(One, call.confidence)
    /\ call.result.confidence = One

\* C2: every entry point returns a ValuationResult, and a call that fails
\* (here: one given an absent or empty subject, which no method can value)
\* returns value 0, confidence 0 and details.error.
C2_FailureIsErrorResult ==
    call.op \in EntryOps =>
        /\ IsValuationResult(call.result)
        /\ Falsy(call.property_details) =>
              /\ call.result.value = Zero
              /\ call.result.confidence = Zero
              /\ HasError(call.result)

\* C3 as stated: for a method name that is none of the four, the dispatcher
\* returns method = the name, value 0, confidence 0 and an error that names
\* the method, for every subject.
C3_UnknownMethodAnySubject ==
    (call.op = "calculate_valuation" /\ call.method \notin ValidMethods) =>
        /\ IsValuationResult(call.result)
        /\ call.result.method = call.method
        /\ call.result.value = Zero
        /\ call.result.confidence = Zero
        /\ HasError(call.result)
        /\ \E i \in DOMAIN call.result.details.error :
              call.result.details.error[i] = call.method

\* C3 as amended: the same for every subject that is present and not empty.
C3_UnknownMethod ==
    (/\ call.op = "calculate_valuation"
     /\ call.method \notin ValidMethods
     /\ ~Falsy(call.property_details)) =>
        /\ IsValuationResult(call.result)
        /\ call.result.method = call.method
        /\ call.result.value = Zero
        /\ call.result.confidence = Zero
        /\ HasError(call.result)
        /\ \E i \in DOMAIN call.result.details.error :
              call.result.details.error[i] = call.method

C3_Witness ==
    /\ call.op = "calculate_valuation"
    /\ call.method = "made_up"
    /\ ~Falsy(call.property_details)
    /\ call.result.details.error = <<"Unknown valuation method: ", "made_up">>

\* C4: the hybrid value is 0.5*v1 + 0.3*v2 + 0.2*v3 and the hybrid confidence
\* 0.5*c1 + 0.3*c2 + 0.2*c3, each rounded to 2 decimals, for the results the
\* three calculators return for the same subject and repository.
C4_HybridFormula ==
    IsHybridCall =>
        LET r1 == calculate_sales_comparison(call.property_details)
            r2 == calculate_income_approach(call.property_details)
            r3 == calculate_cost_approach(call.property_details)
        IN  /\ call.result.value =
                 Round2(RAdd(RAdd(RMul(R(1, 2), r1.value), RMul(R(3, 10), r2.value)),
                             RMul(R(1, 5), r3.value)))
            /\ call.result.confidence =
                 Round2(RAdd(RAdd(RMul(R(1, 2), r1.confidence),
                                  RMul(R(3, 10), r2.confidence)),
                             RMul(R(1, 5), r3.confidence)))

\* a hybrid of three successful sub-results
C4_Witness ==
    /\ IsHybridCall
    /\ ~HasError(calculate_sales_comparison(call.property_details))
    /\ ~HasError(calculate_income_approach(call.property_details))
    /\ ~HasError(calculate_cost_approach(call.property_details))
    /\ RLt(Zero, calculate_sales_comparison(call.property_details).value)
    /\ RLt(Zero, calculate_income_approach(call.property_details).value)
    /\ RLt(Zero, calculate_cost_approach(call.property_details).value)
    /\ RLt(Zero, call.result.value)

\* C5: a failed sub-method is blended in as zeros at its fixed weight and the
\* other weights are not renormalised: the hybrid is the sum over the
\* sub-methods that did not fail of weight * value (and of weight *
\* confidence), so with only the rent missing 0.5*sales + 0.2*cost.
C5_FailedSubMethodKeepsWeights ==
    IsHybridCall =>
        LET r1 == calculate_sales_comparison(call.property_details)
            r2 == calculate_income_approach(call.property_details)
            r3 == calculate_cost_approach(call.property_details)
            Part(r, w, x) == IF HasError(r) THEN Zero ELSE RMul(w, x)
        IN  (HasError(r1) \/ HasError(r2) \/ HasError(r3)) =>
               /\ call.result.method = "hybrid"
               /\ ~HasError(call.result)
               /\ call.result.value =
                    Round2(RAdd(RAdd(Part(r1, R(1, 2), r1.value),
                                     Part(r2, R(3, 10), r2.value)),
                                Part(r3, R(1, 5), r3.value)))
               /\ call.result.confidence =
                    Round2(RAdd(RAdd(Part(r1, R(1, 2), r1.confidence),
                                     Part(r2, R(3, 10), r2.confidence)),
                                Part(r3, R(1, 5), r3.confidence)))

\* only the rent is missing: the hybrid is 0.5*sales + 0.2*cost
C5_Witness ==
    /\ IsHybridCall
    /\ "annual_rent" \notin DOMAIN call.property_details
    /\ ~HasError(calculate_sales_comparison(call.property_details))
    /\ ~HasError(calculate_cost_approach(call.property_details))
    /\ call.result.value =
         Round2(RAdd(RMul(R(1, 2), calculate_sales_comparison(call.property_details).value),
                     RMul(R(1, 5), calculate_cost_approach(call.property_details).value)))
    /\ RLt(Zero, call.result.value)

\* the last call ran the sales-comparison calculation to a successful result
IsSalesResult ==
    /\ \/ call.op = "calculate_sales_comparison"
       \/ call.op = "calculate_valuation" /\ call.method = "sales_comparison"
    /\ ~HasError(call.result)

\* C6: in every adjustment record, adjusted_price is the record's
\* original_price plus the sum of its three breakdown entries.
C6_AdjustedPriceIsOriginalPlusBreakdown ==
    IsSalesResult =>
        \A i \in DOMAIN call.result.details.adjustments.list :
            LET a == call.result.details.adjustments.list[i]
            IN  /\ IsNum(a.original_price)
                /\ a.adjusted_price =
                     RAdd(a.original_price,
                          RAdd(RAdd(a.adjustments.size, a.adjustments.bedrooms),
                               a.adjustments.bathrooms))

\* the subject the selector filters against in the last get_comparable_sales
SelectorSubject == get_property_details(call.property_id)

IsSelectorCall == call.op = "get_comparable_sales"

\* the rows the last get_comparable_sales returned
Returned == IF call.result = NoneVal THEN <<>> ELSE call.result.list

IsReturned(row) == \E j \in DOMAIN Returned : Returned[j] = row

\* C7: every comparable the selector returns has the subject's
\* property_type, bedrooms within 1, bathrooms within 0.5 and sqft within
\* [0.8, 1.2] times the subject's.
C7_ReturnedPassAllFilters ==
    IsSelectorCall =>
        \A j \in DOMAIN Returned :
            LET c == Returned[j]
                subject == SelectorSubject
            IN  /\ c.property_type = subject.property_type
                /\ Between(c.bedrooms, RSub(subject.bedrooms, One),
                           RAdd(subject.bedrooms, One))
                /\ Between(c.bathrooms, RSub(subject.bathrooms, Half),
                           RAdd(subject.bathrooms, Half))
                /\ Between(c.sqft, RMul(R(4, 5), subject.sqft),
                           RMul(R(6, 5), subject.sqft))

\* some rows are returned and some row of the frame is turned down
C7_Witness ==
    /\ IsSelectorCall
    /\ Len(Returned) >= 1
    /\ Len(Returned) < Len(comparable_sales)
    /\ Len(comparable_sales) <= call.max_comparables

\* C8: the bedroom filter accepts exactly the rows with bedrooms in
\* [subject.bedrooms - 1, subject.bedrooms + 1].
C8_BedroomsFilterInterval ==
    (IsSelectorCall /\ SelectorSubject # NoneVal) =>
        BedroomsFilter(SelectorSubject, comparable_sales) =
            SelectSeq(comparable_sales,
                LAMBDA c : Between(c.bedrooms,
                                   RSub(SelectorSubject.bedrooms, One),
                                   RAdd(SelectorSubject.bedrooms, One)))

\* C9: the bathroom filter accepts exactly the rows with bathrooms in
\* [subject.bathrooms - 0.5, subject.bathrooms + 0.5].
C9_BathroomsFilterInterval ==
    (IsSelectorCall /\ SelectorSubject # NoneVal) =>
        BathroomsFilter(SelectorSubject, comparable_sales) =
            SelectSeq(comparable_sales,
                LAMBDA c : Between(c.bathrooms,
                                   RSub(SelectorSubject.bathrooms, Half),
                                   RAdd(SelectorSubject.bathrooms, Half)))

\* the rows of the frame that pass the filters before the sqft filter
PassOtherFilters ==
    BathroomsFilter(SelectorSubject,
        BedroomsFilter(SelectorSubject,
            PropertyTypeFilter(SelectorSubject, comparable_sales)))

\* C10: a row that passes the other filters is returned when its sqft is
\* exactly 1.2 or exactly 0.8 times the subject's, and is not returned when
\* its sqft is above 1.2 times or below 0.8 times the subject's (by 0.01 or
\* more); checked on frames that max_comparables does not cut.
C10_SqftBoundsInclusive ==
    (/\ IsSelectorCall
     /\ SelectorSubject # NoneVal
     /\ Len(comparable_sales) <= call.max_comparables) =>
        \A i \in DOMAIN PassOtherFilters :
            LET c == PassOtherFilters[i]
                low == RMul(SelectorSubject.sqft, R(8, 10))
                high == RMul(SelectorSubject.sqft, R(12, 10))
            IN  /\ (c.sqft = high \/ c.sqft = low) => IsReturned(c)
                /\ (RLe(RAdd(high, R(1, 100)), c.sqft)
                      \/ RLe(c.sqft, RSub(low, R(1, 100)))) => ~IsReturned(c)

\* a row at exactly 1.2 times the subject's sqft is returned and the row
\* 0.01 above it, which passes the other filters, is not
C10_Witness ==
    /\ IsSelectorCall
    /\ SelectorSubject # NoneVal
    /\ \E i, j \in DOMAIN PassOtherFilters :
          /\ PassOtherFilters[i].sqft = RMul(SelectorSubject.sqft, R(12, 10))
          /\ IsReturned(PassOtherFilters[i])
          /\ PassOtherFilters[j].sqft =
               RAdd(RMul(SelectorSubject.sqft, R(12, 10)), R(1, 100))
          /\ ~IsReturned(PassOtherFilters[j])

\* the rows of the frame that pass all four filters, in the frame's order
Matching == SqftFilter(SelectorSubject, PassOtherFilters)

\* C11: the selector returns exactly the first min(max_comparables, number
\* of matches) matching rows, in the order the frame holds them.
C11_FirstMatchesInOrder ==
    (IsSelectorCall /\ SelectorSubject # NoneVal) =>
        /\ Len(Returned) <= call.max_comparables
        /\ Len(Returned) =
             (IF Len(Matching) < call.max_comparables
              THEN Len(Matching) ELSE call.max_comparables)
        /\ \A j \in DOMAIN Returned : Returned[j] = Matching[j]

\* more rows match than max_comparables allows, so the result is cut
C11_Witness ==
    /\ IsSelectorCall
    /\ SelectorSubject # NoneVal
    /\ Len(Matching) > call.max_comparables
    /\ Len(Returned) = call.max_comparables
    /\ Returned[1] = Matching[1]

\* the last call ran the sales-comparison calculation
IsSalesCall ==
    \/ call.op = "calculate_sales_comparison"
    \/ call.op = "calculate_valuation" /\ call.method = "sales_comparison"

\* what the selector returns to the sales-comparison calculation
SalesComparables(property_details) ==
    get_comparable_sales(IdOf(property_details), MaxComparablesDefault)

\* the subject is absent, or the selector returns nothing for it (unknown
\* subject, no qualifying comparable), or a record is malformed
SalesCannotComplete(property_details) ==
    \/ Falsy(property_details)
    \/ SalesComparables(property_details) = NoneVal
    \/ \E i \in DOMAIN SalesComparables(property_details).list :
          AdjustRaises(property_details, SalesComparables(property_details).list[i])

\* C12: whenever the sales-comparison calculation cannot complete it returns
\* a ValuationResult with method "sales_comparison", value 0, confidence 0
\* and details.error, and it never raises.
C12_SalesFailureIsErrorResult ==
    IsSalesCall =>
        /\ IsValuationResult(call.result)
        /\ SalesCannotComplete(call.property_details) =>
              /\ call.result.method = "sales_comparison"
              /\ call.result.value = Zero
              /\ call.result.confidence = Zero
              /\ HasError(call.result)

\* comparables are found and the subject's record is malformed
C12_Witness ==
    /\ IsSalesCall
    /\ ~Falsy(call.property_details)
    /\ SalesComparables(call.property_details) # NoneVal
    /\ SalesCannotComplete(call.property_details)
    /\ call.result.value = Zero
    /\ call.result.details.error = <<"TypeError">>

\* the adjusted prices of the last sales-comparison result
AdjustedPrices ==
    [i \in DOMAIN call.result.details.adjustments.list |->
        call.result.details.adjustments.list[i].adjusted_price]

\* the reported confidence in hundredths, when it is a whole number of them
Hundredths(c) == (c.n * 100) \div c.d

SelectedComparables == call.result.details.comparables.list

\* sale_price + (subject.sqft - comp.sqft) * (sale_price / max(1, comp.sqft)) * 0.5
\*   + (subject.bedrooms - comp.bedrooms) * 10000
\*   + (subject.bathrooms - comp.bathrooms) * 7500,
\* a field the subject or the comparable lacks counting as 0
AdjustedPriceFormula(subject, comp) ==
    LET sale_price == Get(comp, "sale_price", Zero)
    IN  RAdd(sale_price,
             RAdd(RMul(RMul(RSub(Get(subject, "sqft", Zero), comp.sqft),
                            RDiv(sale_price, RMax(One, comp.sqft))),
                       R(1, 2)),
                  RAdd(RMul(RSub(Get(subject, "bedrooms", Zero), comp.bedrooms),
                            RInt(10000)),
                       RMul(RSub(Get(subject, "bathrooms", Zero), comp.bathrooms),
                            RInt(7500)))))

\* C14: the value of a successful sales-comparison result is the arithmetic
\* mean, rounded to 2 decimals, of the adjusted prices of all selected
\* comparables, each computed by the adjustment formula from the caller's
\* subject.
C14_ValueIsMeanOfAdjustedPrices ==
    IsSalesResult =>
        LET prices == [i \in DOMAIN SelectedComparables |->
                          AdjustedPriceFormula(call.property_details,
                                               SelectedComparables[i])]
        IN  /\ call.result.value =
                 Round2(RDiv(SumSeq(prices), RInt(Len(SelectedComparables))))
            /\ \A i \in DOMAIN SelectedComparables :
                  AdjustedPrices[i] = prices[i]

\* two priced comparables of another size than the subject
C14_Witness ==
    /\ IsSalesResult
    /\ Len(SelectedComparables) = 2
    /\ \A i \in DOMAIN SelectedComparables :
          /\ "sale_price" \in DOMAIN SelectedComparables[i]
          /\ SelectedComparables[i].sqft # call.property_details.sqft
    /\ AdjustedPrices[1] # AdjustedPrices[2]
    /\ RLt(Zero, call.result.value)

\* the last call ran the income calculation
IsIncomeCall ==
    \/ call.op = "calculate_income_approach"
    \/ call.op = "calculate_valuation" /\ call.method = "income_approach"

\* C15: the income calculator applied to a subject without annual_rent
\* returns a ValuationResult with method "income_approach", value 0,
\* confidence 0 and details.error, and does not raise.
C15_NoRentIsErrorResult ==
    (IsIncomeCall /\ "annual_rent" \notin DOMAIN call.property_details) =>
        /\ IsValuationResult(call.result)
        /\ call.result.method = "income_approach"
        /\ call.result.value = Zero
        /\ call.result.confidence = Zero
        /\ HasError(call.result)

\* a subject with other fields and no annual_rent
C15_Witness ==
    /\ IsIncomeCall
    /\ ~Falsy(call.property_details)
    /\ "annual_rent" \notin DOMAIN call.property_details
    /\ call.result.details.error = <<"Annual rent data missing">>

\* the subject of the last call has a numeric annual_rent
HasRent ==
    /\ ~Falsy(call.property_details)
    /\ "annual_rent" \in DOMAIN call.property_details
    /\ IsNum(call.property_details.annual_rent)

IsCostCall ==
    \/ call.op = "calculate_cost_approach"
    \/ call.op = "calculate_valuation" /\ call.method = "cost_approach"

\* the subject of the last call is present and its sqft and lot_size are
\* numbers or missing
WellFormedForCost ==
    /\ ~Falsy(call.property_details)
    /\ IsNum(Get(call.property_details, "sqft", Zero))
    /\ IsNum(Get(call.property_details, "lot_size", Zero))

C18_ValueNonNegative ==
    call.op \in EntryOps => RLe(Zero, call.result.value)

Position(method) ==
    IF method = "sales_comparison" THEN 1
    ELSE IF method = "income_approach" THEN 2
    ELSE IF method = "cost_approach" THEN 3
    ELSE 4

\* C20: the results of an all-methods evaluation are sorted by confidence
\* from highest to lowest, results of equal confidence keep the order of the
\* configured method list, and the first result has the maximum confidence.
C20_SortedByConfidenceStable ==
    call.op = "all_methods" =>
        LET results == call.result.list
        IN  /\ \A i, j \in DOMAIN results :
                  i < j =>
                     /\ RLe(results[j].confidence, results[i].confidence)
                     /\ results[i].confidence = results[j].confidence =>
                           Position(results[i].method) < Position(results[j].method)
            /\ \A i \in DOMAIN results :
                  RLe(results[i].confidence, results[1].confidence)

\* the sort moves a later method to the front and leaves two results of
\* equal confidence behind it
C20_Witness ==
    /\ call.op = "all_methods"
    /\ Len(call.result.list) = 4
    /\ call.result.list[1].method # "sales_comparison"
    /\ \E i, j \in DOMAIN call.result.list :
          /\ i < j
          /\ call.result.list[i].confidence = call.result.list[j].confidence
          /\ RLt(call.result.list[i].confidence, call.result.list[1].confidence)

\* C21: in every successful sales-comparison result, details.comparables and
\* details.adjustments have the same length, the i-th adjustment carries the
\* id of the i-th comparable as comp_id and its sale_price as original_price
\* (None for a comparable without one), and details.statistics.count is that
\* common length.
C21_AdjustmentsAlignWithComparables ==
    IsSalesResult =>
        LET comparables == call.result.details.comparables.list
            adjustments == call.result.details.adjustments.list
        IN  /\ Len(comparables) = Len(adjustments)
            /\ call.result.details.statistics.count = Len(comparables)
            /\ \A i \in DOMAIN adjustments :
                  /\ adjustments[i].comp_id = comparables[i].id
                  /\ adjustments[i].original_price =
                       Get(comparables[i], "sale_price", NoneVal)

\* two comparables of different ids and prices, adjusted to other prices
C21_Witness ==
    /\ IsSalesResult
    /\ Len(SelectedComparables) = 2
    /\ call.result.details.statistics.count = 2
    /\ SelectedComparables[1].id # SelectedComparables[2].id
    /\ SelectedComparables[1].sale_price # SelectedComparables[2].sale_price
    /\ \A i \in {1, 2} :
          /\ call.result.details.adjustments.list[i].original_price =
               SelectedComparables[i].sale_price
          /\ call.result.details.adjustments.list[i].adjusted_price #
               SelectedComparables[i].sale_price

\* the subject and the single comparable of the worked example
IsWorkedExample ==
    /\ IsSalesResult
    /\ Get(call.property_details, "sqft", NoneVal) = RInt(1800)
    /\ Get(call.property_details, "bedrooms", NoneVal) = RInt(3)
    /\ Get(call.property_details, "bathrooms", NoneVal) = R(5, 2)
    /\ Len(SelectedComparables) = 1
    /\ Get(SelectedComparables[1], "sale_price", NoneVal) = RInt(725000)
    /\ SelectedComparables[1].sqft = RInt(1750)
    /\ SelectedComparables[1].bedrooms = RInt(3)
    /\ SelectedComparables[1].bathrooms = RInt(2)

\* |x - y| <= 0.01
WithinCent(x, y) == RLe(RSub(x, y), R(1, 100)) /\ RLe(RSub(y, x), R(1, 100))

\* C22: for the subject {sqft 1800, bedrooms 3, bathrooms 2.5} and the single
\* comparable {sale_price 725000, sqft 1750, bedrooms 3, bathrooms 2} the
\* adjustment is size 10357.14, bedrooms 0, bathrooms 3750 and the adjusted
\* price 739107.14 (within 0.01), and the result has value 739107.14 and
\* confidence 1.0.
C22_WorkedExample ==
    IsWorkedExample =>
        LET a == call.result.details.adjustments.list[1]
        IN  /\ WithinCent(a.adjustments.size, R(1035714, 100))
            /\ a.adjustments.bedrooms = Zero
            /\ a.adjustments.bathrooms = RInt(3750)
            /\ WithinCent(a.adjusted_price, R(73910714, 100))
            /\ call.result.value = R(73910714, 100)
            /\ call.result.confidence = One
            /\ call.result.details.statistics.count = 1

\* the example computed on a repository that holds property 1 and the
\* single comparable 101
C22_Witness ==
    /\ IsWorkedExample
    /\ Len(comparable_sales) = 1
    /\ comparable_sales[1].id = "101"
    /\ call.result.value = R(73910714, 100)
    /\ call.result.details.adjustments.list[1].adjusted_price = R(5173750, 7)

C25_SubjectCheckedFirst ==
    (call.op = "calculate_valuation" /\ Falsy(call.property_details)) =>
        call.result = [method |-> call.method,
                       value |-> Zero,
                       confidence |-> Zero,
                       details |-> [error |-> <<"No property details provided">>]]

\* an absent subject with the hybrid method on a loaded repository: the
\* hybrid combiner would have returned a result without details.error
C25_Witness ==
    /\ call.op = "calculate_valuation"
    /\ call.property_details = NoneVal
    /\ call.method = "hybrid"
    /\ ~Empty(property_data) /\ ~Empty(comparable_sales)
    /\ call.result.details.error = <<"No property details provided">>
    /\ ~HasError(calculate_hybrid_valuation(call.property_details))

\* the three sub-methods all fail for the subject
AllSubMethodsFail(property_details) ==
    /\ HasError(calculate_sales_comparison(property_details))
    /\ HasError(calculate_income_approach(property_details))
    /\ HasError(calculate_cost_approach(property_details))

\* C26: a result of calculate_hybrid_valuation never has a top-level
\* details.error on account of a failed sub-method: it has method "hybrid"
\* and the sub-methods' details, error messages included, under
\* details.components, and when all three sub-methods fail its value and
\* confidence are 0.
C26_HybridHidesSubMethodErrors ==
    IsHybridCall =>
        /\ call.result.method = "hybrid"
        /\ ~HasError(call.result)
        /\ DOMAIN call.result.details = {"components", "weights"}
        /\ AllSubMethodsFail(call.property_details) =>
              /\ call.result.value = Zero
              /\ call.result.confidence = Zero
              /\ \A m \in DOMAIN call.result.details.components :
                    "error" \in DOMAIN call.result.details.components[m]

\* the hybrid of an absent subject: three times "No property details
\* provided" under the components and no error on top
C26_Witness ==
    /\ call.op = "calculate_hybrid_valuation"
    /\ Falsy(call.property_details)
    /\ AllSubMethodsFail(call.property_details)
    /\ ~HasError(call.result)
    /\ call.result.value = Zero
    /\ call.result.details.components.cost_approach.error =
         <<"No property details provided">>

RepositoryRecord(property_details) == get_property_details(IdOf(property_details))

\* C28: the sales comparison selects its comparables from the id of the
\* passed subject alone, filtering against the repository's record of that
\* id, and adjusts the prices with the fields of the passed subject: every
\* subject of the same id gets the same comparables, and a subject whose id
\* the repository does not hold gets the failure "No comparable sales found".
C28_SelectedByIdAdjustedByPassedFields ==
    (IsSalesCall /\ ~Falsy(call.property_details)) =>
        /\ RepositoryRecord(call.property_details) = NoneVal =>
              /\ HasError(call.result)
              /\ call.result.details.error = <<"No comparable sales found">>
        /\ ~HasError(call.result) =>
              /\ call.result.details.comparables =
                   SelectComparables(RepositoryRecord(call.property_details),
                                     MaxComparablesDefault)
              /\ \A s \in Subjects :
                    (~Falsy(s) /\ StrStrip(IdOf(s)) = StrStrip(IdOf(call.property_details)))
                        => SalesComparables(s) = call.result.details.comparables
              /\ \A i \in DOMAIN SelectedComparables :
                    AdjustedPrices[i] =
                        AdjustedPriceFormula(call.property_details, SelectedComparables[i])

\* a passed subject of the id of property 1 with other bedrooms, bathrooms
\* and sqft than the repository's record: a comparable is selected that the
\* filters would turn down for the passed fields, and it is adjusted with them
C28_Witness ==
    /\ IsSalesResult
    /\ call.property_details.bedrooms # RepositoryRecord(call.property_details).bedrooms
    /\ call.property_details.sqft # RepositoryRecord(call.property_details).sqft
    /\ \E i \in DOMAIN SelectedComparables :
          /\ BathroomsFilter(call.property_details, <<SelectedComparables[i]>>) = <<>>
          /\ call.result.details.adjustments.list[i].adjustments.bedrooms =
               RMul(RSub(call.property_details.bedrooms, SelectedComparables[i].bedrooms),
                    RInt(10000))
          /\ call.result.details.adjustments.list[i].adjustments.bedrooms # Zero

\* C29: the method field of the result of calculate_valuation(subject,
\* method_name) is method_name, for a valid and for an unknown method_name,
\* whether the calculation succeeds or fails.
C29_MethodEchoed ==
    call.op = "calculate_valuation" =>
        /\ IsValuationResult(call.result)
        /\ call.result.method = call.method

\* a failed calculation under a valid name: the error result comes from the
\* calculator's own except branch and carries the same name
C29_Witness ==
    /\ call.op = "calculate_valuation"
    /\ call.method = "sales_comparison"
    /\ ~Falsy(call.property_details)
    /\ HasError(call.result)
    /\ call.result.details.error = <<"No comparable sales found">>
    /\ call.result.method = "sales_comparison"

\* the first row of a frame with the id, or None: the search of
\* get_property_details on a given frame
RecordIn(frame, property_id) ==
    LET matches == SelectSeq(frame,
                     LAMBDA row : StrStrip(row.id) = StrStrip(property_id))
    IN  IF Empty(matches) THEN NoneVal ELSE matches[1]

\* C30: on a processor with no property data loaded, get_property_details(id)
\* loads the data files first and, when the files load and hold a record of
\* the id, returns that record; it returns None only when loading fails or
\* no record matches; and on a processor with data loaded the lookup is
\* answered from the loaded rows, whatever the files hold by then.
C30_LazyLoad ==
    call.op = "get_property_details" =>
        IF call.loaded
        THEN call.result = RecordIn(property_data, call.property_id)
        ELSE LET on_disk == RecordIn(clean_data(call.property_file), call.property_id)
             IN  /\ (call.valid /\ on_disk # NoneVal) => call.result = on_disk
                 /\ call.result = NoneVal => (~call.valid \/ on_disk = NoneVal)

============================================================================
